---- MODULE Spec2Model ----
(***************************************************************************)
(* Model of the collection behaviour documented in                         *)
(* docs/package-mongo.mdx: collection writes that dispatch Before/After    *)
(* events, the Blameable behavior's context requirement, transactions      *)
(* (DatabaseService.transact) and Nova queries with expanders/reducers.    *)
(***************************************************************************)
EXTENDS Integers, FiniteSets, Sequences, TLC

\* ---------------------------------------------------------------- bounds
MaxUsers == 2
MaxPosts == 1

\* ------------------------------------------------------------- constants
Undefined == "undefined"
Null == "null"

FirstNames == {"John"}
LastNames == {"Smithsonian"}
UserIds == {"XXX"}
Titles == {"t0", "t1"}
PostIds == 1..MaxPosts

\* context.userId as the caller supplies it: a value, null, or left out
ContextUserIds == UserIds \cup {Null, Undefined}

\* the events the package exports
EventKinds == {"BeforeInsertEvent", "AfterInsertEvent",
               "BeforeUpdateEvent", "AfterUpdateEvent"}

\* the two ways the page configures fullName on UsersCollection
Configs == {"expanders", "reducers"}

RawFields == {"firstName", "lastName"}
Fields == RawFields \cup {"fullName"}

NoSession == [active |-> FALSE, users |-> {}, posts |-> [p \in PostIds |-> "t0"]]
NoResult == [op |-> "none", error |-> "none", failedWrite |-> 0, userId |-> Undefined, id |-> 0]
NoQuery == [body |-> {}, found |-> FALSE, doc |-> [f \in {} |-> <<>>]]

VARIABLES phase, listeners, config, users, posts, session, pc, before,
          lastResult, queryResult

vars == <<phase, listeners, config, users, posts, session, pc, before,
          lastResult, queryResult>>

\* ------------------------------------------------------------- behaviors
\* Behaviors.Blameable({ userIdFieldFromContext: "userId" }): throws when the
\* context has no userId that is either null or a value; otherwise stamps
\* createdBy on the document about to be written.
BlameableThrowsOnFalsy(userId) == userId \in {Undefined, Null}

BlameableThrows(userId) == userId = Undefined

Blameable(document, userId) ==
    [document EXCEPT !.createdBy = userId]

\* a registered listener of the kind can reject; one that is not registered cannot
CanThrow(kind, throws) == throws => kind \in listeners

\* ------------------------------------------------------ collection writes
\* usersCollection.insertOne(document, { context, session }) on a store
InsertOne(store, document, userId, beforeThrows, afterThrows) ==
    IF BlameableThrows(userId)
    THEN [store |-> store, error |-> "BlameableError"]
    ELSE IF beforeThrows
    THEN [store |-> store, error |-> "ListenerError"]
    ELSE [store |-> store \cup {Blameable(document, userId)},
          error |-> IF afterThrows THEN "ListenerError" ELSE "none"]

\* postsCollection.updateOne(filter, modifier, { session }) on a store
UpdateOne(store, filter, modifier, beforeThrows, afterThrows) ==
    IF beforeThrows
    THEN [store |-> store, error |-> "ListenerError"]
    ELSE [store |-> [store EXCEPT ![filter] = modifier],
          error |-> IF afterThrows THEN "ListenerError" ELSE "none"]

NextId(store) == Cardinality(store) + 1

NewDocument(store, fn, ln) ==
    [_id |-> NextId(store), firstName |-> fn, lastName |-> ln, createdBy |-> Undefined]

\* ------------------------------------------------------------------ Nova
\* static expanders = { fullName: { firstName: 1, lastName: 1 } }
expanders == [fullName |-> {"firstName", "lastName"}]

\* static reducers = { fullName: { dependency: { firstName: 1, lastName: 1 }, reduce } }
dependency == [fullName |-> {"firstName", "lastName"}]

\* a property read on a JavaScript object: the value, or undefined
Get(obj, f) == IF f \in DOMAIN obj THEN obj[f] ELSE <<Undefined>>

\* a.firstName + " " + a.lastName
FullNameOf(obj) == Get(obj, "firstName") \o <<" ">> \o Get(obj, "lastName")

\* class User { get fullName() { return this.firstName + " " + this.lastName } }
fullName(this) == FullNameOf(this)

\* reduce({ firstName, lastName }) { return this.firstName + " " + this.lastName }
reduce(obj, this) == FullNameOf(this)

\* the stored document as Nova reads it
Stored(document) ==
    [f \in RawFields |-> IF f = "firstName" THEN <<document.firstName>>
                                              ELSE <<document.lastName>>]

\* the fields the underlying query fetches for a request body
QueryFields(body, cfg) ==
    (body \cap RawFields) \cup
    (IF "fullName" \in body
     THEN (IF cfg = "expanders" THEN expanders.fullName ELSE dependency.fullName)
     ELSE {})

CleanedNothing(body, fetched) == fetched

\* the fields of the fetched object that survive the reducers' clean-up
Cleaned(body, fetched) == fetched \cap body

\* usersCollection.queryOne(body) for one stored document
QueryOne(document, body, cfg, thisIsObject) ==
    LET fetched == [f \in QueryFields(body, cfg) |-> Stored(document)[f]]
    IN IF cfg = "expanders"
       THEN \* mapped to the User model class, whose getter computes fullName
            [f \in DOMAIN fetched \cup {"fullName"} |->
                IF f = "fullName" THEN fullName(fetched) ELSE fetched[f]]
       ELSE LET this == IF thisIsObject THEN fetched ELSE [f \in {} |-> <<>>]
                kept == Cleaned(body, DOMAIN fetched)
            IN [f \in kept \cup (body \cap {"fullName"}) |->
                   IF f = "fullName" THEN reduce(fetched, this) ELSE fetched[f]]

\* ---------------------------------------------------------- transactions
RollbackKeepsSession(persisted, sess) == sess

\* what is persisted once transact's callback has thrown
Rollback(persisted, sess) == persisted

\* what is persisted once transact's callback has resolved
Commit(persisted, sess) == sess

\* ------------------------------------------------------------------ Init
Init ==
    /\ phase = "prepare"
    /\ listeners = {}
    /\ config \in Configs
    /\ users = {}
    /\ posts = [p \in PostIds |-> "t0"]
    /\ session = NoSession
    /\ pc = "idle"
    /\ before = [users |-> {}, posts |-> [p \in PostIds |-> "t0"]]
    /\ lastResult = NoResult
    /\ queryResult = NoQuery

\* --------------------------------------------------------------- actions
\* eventManager.addListener(Event, handler), in the bundle's prepare() phase
addListener(kind) ==
    /\ phase = "prepare"
    /\ kind \notin listeners
    /\ listeners' = listeners \cup {kind}
    /\ UNCHANGED <<phase, config, users, posts, session, pc, before, lastResult, queryResult>>

\* the bundle gets initialised; collections are usable from here on
initialise ==
    /\ phase = "prepare"
    /\ phase' = "ready"
    /\ UNCHANGED <<listeners, config, users, posts, session, pc, before, lastResult, queryResult>>

\* await usersCollection.insertOne(document, { context }) outside a transaction
insertOne(fn, ln, userId, beforeThrows, afterThrows) ==
    /\ phase = "ready"
    /\ pc = "idle"
    /\ Cardinality(users) < MaxUsers
    /\ CanThrow("BeforeInsertEvent", beforeThrows)
    /\ CanThrow("AfterInsertEvent", afterThrows)
    /\ LET r == InsertOne(users, NewDocument(users, fn, ln), userId, beforeThrows, afterThrows)
       IN /\ users' = r.store
          /\ lastResult' = [op |-> "insertOne", error |-> r.error, failedWrite |-> 0,
                            userId |-> userId, id |-> NextId(users)]
    /\ before' = [users |-> users, posts |-> posts]
    /\ UNCHANGED <<phase, listeners, config, posts, session, pc, queryResult>>

\* await postsCollection.updateOne(filter, modifier) outside a transaction
updateOne(filter, modifier, beforeThrows, afterThrows) ==
    /\ phase = "ready"
    /\ pc = "idle"
    /\ CanThrow("BeforeUpdateEvent", beforeThrows)
    /\ CanThrow("AfterUpdateEvent", afterThrows)
    /\ LET r == UpdateOne(posts, filter, modifier, beforeThrows, afterThrows)
       IN /\ posts' = r.store
          /\ lastResult' = [op |-> "updateOne", error |-> r.error, failedWrite |-> 0,
                            userId |-> Undefined, id |-> filter]
    /\ before' = [users |-> users, posts |-> posts]
    /\ UNCHANGED <<phase, listeners, config, users, session, pc, queryResult>>

\* dbService.transact((session) => { ... }) is entered
transact ==
    /\ phase = "ready"
    /\ pc = "idle"
    /\ pc' = "insertOne"
    /\ session' = [active |-> TRUE, users |-> users, posts |-> posts]
    /\ before' = [users |-> users, posts |-> posts]
    /\ lastResult' = [NoResult EXCEPT !.op = "transact", !.error = "pending"]
    /\ UNCHANGED <<phase, listeners, config, users, posts, queryResult>>

\* first statement of the callback: usersCollection.insertOne(document, { session })
transactInsertOne(fn, ln, userId, beforeThrows, afterThrows) ==
    /\ pc = "insertOne"
    /\ Cardinality(session.users) < MaxUsers
    /\ CanThrow("BeforeInsertEvent", beforeThrows)
    /\ CanThrow("AfterInsertEvent", afterThrows)
    /\ LET r == InsertOne(session.users, NewDocument(session.users, fn, ln), userId,
                          beforeThrows, afterThrows)
           s == [session EXCEPT !.users = r.store]
       IN IF r.error = "none"
          THEN /\ session' = s
               /\ pc' = "updateOne"
               /\ lastResult' = [lastResult EXCEPT !.userId = userId,
                                                   !.id = NextId(session.users)]
               /\ UNCHANGED <<users, posts>>
          ELSE /\ users' = Rollback(users, s.users)
               /\ posts' = Rollback(posts, s.posts)
               /\ session' = NoSession
               /\ pc' = "idle"
               /\ lastResult' = [op |-> "transact", error |-> r.error, failedWrite |-> 1,
                                 userId |-> userId, id |-> NextId(session.users)]
    /\ UNCHANGED <<phase, listeners, config, before, queryResult>>

\* second statement: postsCollection.updateOne(filter, modifier, { session })
transactUpdateOne(filter, modifier, beforeThrows, afterThrows) ==
    /\ pc = "updateOne"
    /\ CanThrow("BeforeUpdateEvent", beforeThrows)
    /\ CanThrow("AfterUpdateEvent", afterThrows)
    /\ LET r == UpdateOne(session.posts, filter, modifier, beforeThrows, afterThrows)
           s == [session EXCEPT !.posts = r.store]
       IN IF r.error = "none"
          THEN /\ users' = Commit(users, s.users)
               /\ posts' = Commit(posts, s.posts)
               /\ lastResult' = [lastResult EXCEPT !.error = "none"]
          ELSE /\ users' = Rollback(users, s.users)
               /\ posts' = Rollback(posts, s.posts)
               /\ lastResult' = [lastResult EXCEPT !.error = r.error, !.failedWrite = 2]
    /\ session' = NoSession
    /\ pc' = "idle"
    /\ UNCHANGED <<phase, listeners, config, before, queryResult>>

\* usersCollection.queryOne({ $: { filters: { _id } }, ...body })
queryOne(id, body, thisIsObject) ==
    /\ phase = "ready"
    /\ pc = "idle"
    /\ body # {}
    /\ IF \E d \in users : d._id = id
       THEN LET d == CHOOSE x \in users : x._id = id
            IN queryResult' = [body |-> body, found |-> TRUE,
                               doc |-> QueryOne(d, body, config, thisIsObject)]
       ELSE queryResult' = [body |-> body, found |-> FALSE, doc |-> NoQuery.doc]
    /\ UNCHANGED <<phase, listeners, config, users, posts, session, pc, before, lastResult>>

Next ==
    \/ \E kind \in EventKinds : addListener(kind)
    \/ initialise
    \/ \E fn \in FirstNames, ln \in LastNames, u \in ContextUserIds, b, a \in BOOLEAN :
          insertOne(fn, ln, u, b, a)
    \/ \E p \in PostIds, t \in Titles, b, a \in BOOLEAN : updateOne(p, t, b, a)
    \/ transact
    \/ \E fn \in FirstNames, ln \in LastNames, u \in ContextUserIds, b, a \in BOOLEAN :
          transactInsertOne(fn, ln, u, b, a)
    \/ \E p \in PostIds, t \in Titles, b, a \in BOOLEAN : transactUpdateOne(p, t, b, a)
    \/ \E id \in 1..MaxUsers, body \in SUBSET Fields, o \in BOOLEAN : queryOne(id, body, o)

Spec == Init /\ [][Next]_vars


\* ---------------------------------------------------------------- claims
\* C3: with Blameable requiring userId, an insertOne whose context lacks
\* userId raises and leaves the collection as it was; an insertOne whose
\* context has userId set to null or to a value is not stopped by Blameable,
\* and when no listener rejects either, its document is written.
C3_BlameableBlocksMissingContext ==
    lastResult.op = "insertOne" =>
        /\ lastResult.userId = Undefined =>
              /\ lastResult.error # "none"
              /\ users = before.users
        /\ lastResult.userId # Undefined =>
              /\ lastResult.error # "BlameableError"
              /\ lastResult.error = "none" =>
                    \E d \in users \ before.users :
                        d._id = lastResult.id /\ d.createdBy = lastResult.userId

\* an insert without userId was blocked after one with userId null went through
C3_Witness ==
    /\ lastResult.op = "insertOne"
    /\ lastResult.userId = Undefined
    /\ lastResult.error = "BlameableError"
    /\ users = before.users
    /\ \E d \in users : d.createdBy = Null

\* C4: when a listener of the second write of a transaction raises, transact
\* fails with that error and what is persisted equals what was persisted
\* before the transaction started.
C4_FailedTransactionPersistsNothing ==
    (lastResult.op = "transact" /\ lastResult.failedWrite = 2) =>
        /\ lastResult.error = "ListenerError"
        /\ users = before.users
        /\ posts = before.posts
        /\ ~session.active

\* the second write's listener raised after the first write had inserted a
\* document in the session; that document is not persisted
C4_Witness ==
    /\ lastResult.op = "transact"
    /\ lastResult.failedWrite = 2
    /\ lastResult.error = "ListenerError"
    /\ lastResult.id > 0
    /\ ~ \E d \in users : d._id = lastResult.id
    /\ users = before.users
    /\ posts = before.posts

\* C7: with fullName a reducer, a query that requests fullName returns a
\* document that has fullName and has a dependency field (firstName,
\* lastName) exactly when the query also requested that field.
C7_ReducerOmitsDependencies ==
    (config = "reducers" /\ queryResult.found /\ "fullName" \in queryResult.body) =>
        /\ "fullName" \in DOMAIN queryResult.doc
        /\ \A f \in dependency.fullName :
              f \in DOMAIN queryResult.doc <=> f \in queryResult.body

\* a query for fullName alone returned a document with fullName alone
C7_Witness ==
    /\ config = "reducers"
    /\ queryResult.found
    /\ queryResult.body = {"fullName"}
    /\ DOMAIN queryResult.doc = {"fullName"}
====
